---------------------------- MODULE Spec2Model ----------------------------
(***************************************************************************)
(* A model of yshir/toy-mysql-client: the client side of the MySQL wire    *)
(* protocol.  Bytes are the naturals 0..255, a packet payload and a Rust   *)
(* String are sequences of bytes (a String is its UTF-8 encoding), a u32   *)
(* is a pair <<high 16 bits, low 16 bits>> and a u64 four such limbs, so   *)
(* that no value leaves the range of the checker's integers.  A Rust       *)
(* Result is a record [t |-> "Ok", v |-> value] or [t |-> "Err", v |->     *)
(* message]; a panic (an index or slice out of range, an arithmetic        *)
(* overflow in a build with overflow checks) is [t |-> "Panic"].           *)
(***************************************************************************)
EXTENDS Integers, Sequences, FiniteSets, TLC

(***************************************************************************)
(* Bounds of the model.                                                    *)
(***************************************************************************)
\* query() calls made on one connection
MaxQueries == 2
\* result rows per query sent by the hostile server
MaxRows == 2
\* result rows per query sent by the bulk server (enough to pass 255 packets)
BulkRows == 256
\* values of a row handed to the row decoder on its own
MaxValues == 3
\* bytes of the longest payload handed to the framing on its own (its length
\* needs the third byte of the header)
MaxPayload == 65537

(***************************************************************************)
(* Rust values.                                                            *)
(***************************************************************************)
Ok(v) == [t |-> "Ok", v |-> v]
Err(e) == [t |-> "Err", v |-> e]
Panic == [t |-> "Panic"]

\* pkt[a..b] of Rust (0-based, half open) as a sequence
Slice(pkt, a, b) == SubSeq(pkt, a + 1, b)

\* u16::from_le_bytes
U16(b0, b1) == b0 + (256 * b1)
\* u32::from_le_bytes as <<high half, low half>>
U32(b0, b1, b2, b3) == <<U16(b2, b3), U16(b0, b1)>>
\* u32::to_le_bytes
U32Bytes(w) == <<w[2] % 256, w[2] \div 256, w[1] % 256, w[1] \div 256>>
\* u64::from_le_bytes as four 16-bit limbs, highest first
U64(b) == <<U16(b[7], b[8]), U16(b[5], b[6]), U16(b[3], b[4]), U16(b[1], b[2])>>

RECURSIVE Zeros(_)
Zeros(n) == IF n <= 0 THEN <<>> ELSE <<0>> \o Zeros(n - 1)

\* a continuation byte of UTF-8
IsCont(b) == b >= 128 /\ b <= 191

\* the width of the well-formed UTF-8 character that starts at s[i], 0 when
\* there is none (core::str::from_utf8's per-character validation)
Utf8CharAt(s, i) ==
  LET b == s[i] IN
  IF b < 128 THEN 1
  ELSE IF b >= 194 /\ b <= 223 THEN
    IF i + 1 <= Len(s) /\ IsCont(s[i + 1]) THEN 2 ELSE 0
  ELSE IF b >= 224 /\ b <= 239 THEN
    IF /\ i + 2 <= Len(s)
       /\ IF b = 224 THEN s[i + 1] >= 160 /\ s[i + 1] <= 191
          ELSE IF b = 237 THEN s[i + 1] >= 128 /\ s[i + 1] <= 159
          ELSE IsCont(s[i + 1])
       /\ IsCont(s[i + 2])
    THEN 3 ELSE 0
  ELSE IF b >= 240 /\ b <= 244 THEN
    IF /\ i + 3 <= Len(s)
       /\ IF b = 240 THEN s[i + 1] >= 144 /\ s[i + 1] <= 191
          ELSE IF b = 244 THEN s[i + 1] >= 128 /\ s[i + 1] <= 143
          ELSE IsCont(s[i + 1])
       /\ IsCont(s[i + 2])
       /\ IsCont(s[i + 3])
    THEN 4 ELSE 0
  ELSE 0

\* core::str::from_utf8's acceptance of s from index i on (1-based): every
\* byte starts a well-formed character or continues the one that starts 1..3
\* bytes before it
Utf8ValidFrom(s, i) ==
  \A j \in i..Len(s) :
    IF IsCont(s[j])
    THEN \E k \in 1..3 : j - k >= i /\ ~IsCont(s[j - k]) /\ Utf8CharAt(s, j - k) > k
    ELSE Utf8CharAt(s, j) > 0

\* String::from_utf8(bytes)
FromUtf8(bytes) == IF Utf8ValidFrom(bytes, 1) THEN Ok(bytes) ELSE Err("invalid utf-8")

(***************************************************************************)
(* utils.rs: the two length-encoded primitives.                            *)
(***************************************************************************)
\* decode_lenenc_string that leaves the length byte out of the consumed count
decode_lenenc_string_short(pkt, pos) ==
  IF pos >= Len(pkt) THEN Panic
  ELSE IF pos + 1 + pkt[pos + 1] > Len(pkt) THEN Panic
  ELSE IF ~Utf8ValidFrom(Slice(pkt, pos + 1, pos + 1 + pkt[pos + 1]), 1) THEN Err("invalid utf-8")
  ELSE Ok(<<Slice(pkt, pos + 1, pos + 1 + pkt[pos + 1]), pkt[pos + 1]>>)

decode_lenenc_string(pkt, pos) ==
  IF pos >= Len(pkt) THEN Panic
  ELSE
    LET head == pkt[pos + 1] IN
    IF pos + 1 + head > Len(pkt) THEN Panic
    ELSE
      LET val == FromUtf8(Slice(pkt, pos + 1, pos + 1 + head)) IN
      IF val.t = "Err" THEN val
      ELSE Ok(<<val.v, Len(val.v) + 1>>)

\* decode_lenenc_integer whose 0xfd arm drops the third byte
decode_lenenc_integer_short24(pkt, pos) ==
  IF pos >= Len(pkt) THEN Panic
  ELSE IF pkt[pos + 1] <= 250 THEN Ok(<<<<0, 0, 0, pkt[pos + 1]>>, 1>>)
  ELSE IF pkt[pos + 1] = 252 THEN
    IF pos + 3 > Len(pkt) THEN Panic
    ELSE Ok(<<<<0, 0, 0, U16(pkt[pos + 2], pkt[pos + 3])>>, 3>>)
  ELSE IF pkt[pos + 1] = 253 THEN
    IF pos + 4 > Len(pkt) THEN Panic
    ELSE Ok(<<<<0, 0, 0, U16(pkt[pos + 2], pkt[pos + 3])>>, 4>>)
  ELSE IF pkt[pos + 1] = 254 THEN
    IF pos + 9 > Len(pkt) THEN Panic
    ELSE Ok(<<U64(Slice(pkt, pos + 1, pos + 9)), 9>>)
  ELSE Err("unknown byte")

\* decode_lenenc_integer whose 1-byte arm is 0x00..=0xfb
decode_lenenc_integer_fb(pkt, pos) ==
  IF pos >= Len(pkt) THEN Panic
  ELSE IF pkt[pos + 1] <= 251 THEN Ok(<<<<0, 0, 0, pkt[pos + 1]>>, 1>>)
  ELSE IF pkt[pos + 1] = 252 THEN
    IF pos + 3 > Len(pkt) THEN Panic
    ELSE Ok(<<<<0, 0, 0, U16(pkt[pos + 2], pkt[pos + 3])>>, 3>>)
  ELSE IF pkt[pos + 1] = 253 THEN
    IF pos + 4 > Len(pkt) THEN Panic
    ELSE Ok(<<<<0, 0, pkt[pos + 4], U16(pkt[pos + 2], pkt[pos + 3])>>, 4>>)
  ELSE IF pkt[pos + 1] = 254 THEN
    IF pos + 9 > Len(pkt) THEN Panic
    ELSE Ok(<<U64(Slice(pkt, pos + 1, pos + 9)), 9>>)
  ELSE Err("unknown byte")

decode_lenenc_integer(pkt, pos) ==
  IF pos >= Len(pkt) THEN Panic
  ELSE
    LET head == pkt[pos + 1] IN
    IF head <= 250 THEN Ok(<<<<0, 0, 0, head>>, 1>>)
    ELSE IF head = 252 THEN
      IF pos + 3 > Len(pkt) THEN Panic
      ELSE Ok(<<<<0, 0, 0, U16(pkt[pos + 2], pkt[pos + 3])>>, 3>>)
    ELSE IF head = 253 THEN
      IF pos + 4 > Len(pkt) THEN Panic
      ELSE Ok(<<<<0, 0, pkt[pos + 4], U16(pkt[pos + 2], pkt[pos + 3])>>, 4>>)
    ELSE IF head = 254 THEN
      IF pos + 9 > Len(pkt) THEN Panic
      ELSE Ok(<<U64(Slice(pkt, pos + 1, pos + 9)), 9>>)
    ELSE Err("unknown byte")

(***************************************************************************)
(* SHA-1 (the sha1 crate), on 32-bit words kept as two 16-bit halves.      *)
(***************************************************************************)
RECURSIVE Xor16(_, _)
Xor16(a, b) ==
  IF a = 0 THEN b
  ELSE IF b = 0 THEN a
  ELSE (((a % 2) + (b % 2)) % 2) + (2 * Xor16(a \div 2, b \div 2))

RECURSIVE And16(_, _)
And16(a, b) ==
  IF a = 0 \/ b = 0 THEN 0
  ELSE ((a % 2) * (b % 2)) + (2 * And16(a \div 2, b \div 2))

RECURSIVE Pow2(_)
Pow2(n) == IF n = 0 THEN 1 ELSE 2 * Pow2(n - 1)

WXor(x, y) == <<Xor16(x[1], y[1]), Xor16(x[2], y[2])>>
WAnd(x, y) == <<And16(x[1], y[1]), And16(x[2], y[2])>>
WNot(x) == <<65535 - x[1], 65535 - x[2]>>
WOr(x, y) == <<(x[1] + y[1]) - And16(x[1], y[1]), (x[2] + y[2]) - And16(x[2], y[2])>>
\* wrapping addition modulo 2^32
WAdd(x, y) ==
  LET lo == x[2] + y[2]
      hi == x[1] + y[1] + (lo \div 65536)
  IN <<hi % 65536, lo % 65536>>
\* rotate left by n bits, 0 <= n < 32
Rotl(x, n) ==
  LET y == IF n >= 16 THEN <<x[2], x[1]>> ELSE x
      m == IF n >= 16 THEN n - 16 ELSE n
      p == Pow2(m)
      q == Pow2(16 - m)
  IN IF m = 0 THEN y
     ELSE <<((y[1] * p) % 65536) + (y[2] \div q), ((y[2] * p) % 65536) + (y[1] \div q)>>

\* the message followed by 0x80, zeros and the 64-bit big-endian bit length
Sha1Pad(m) ==
  LET l == Len(m)
      z == (119 - (l % 64)) % 64
      bits == 8 * l
  IN m \o <<128>> \o Zeros(z)
       \o <<0, 0, 0, 0, 0, (bits \div 65536) % 256, (bits \div 256) % 256, bits % 256>>

\* the message schedule w with its words a..b-1 (1-based) appended, by halving:
\* the words before a are computed before any of a..b-1
RECURSIVE Sha1Schedule(_, _, _)
Sha1Schedule(w, a, b) ==
  IF Len(w) = 0 \/ b - a <= 0 THEN w
  ELSE IF b - a = 1 THEN
    Append(w, Rotl(WXor(WXor(w[a - 3], w[a - 8]), WXor(w[a - 14], w[a - 16])), 1))
  ELSE Sha1Schedule(Sha1Schedule(w, a, a + ((b - a) \div 2)), a + ((b - a) \div 2), b)

Sha1F(t, b, c, d) ==
  IF t < 20 THEN WOr(WAnd(b, c), WAnd(WNot(b), d))
  ELSE IF t < 40 THEN WXor(WXor(b, c), d)
  ELSE IF t < 60 THEN WOr(WOr(WAnd(b, c), WAnd(b, d)), WAnd(c, d))
  ELSE WXor(WXor(b, c), d)

Sha1K(t) ==
  IF t < 20 THEN <<23170, 31129>>
  ELSE IF t < 40 THEN <<28377, 60321>>
  ELSE IF t < 60 THEN <<36635, 48348>>
  ELSE <<51810, 49622>>

\* one round: the working state <<a, b, c, d, e>> after round t
Sha1Round(s, wt, t) ==
  <<WAdd(WAdd(WAdd(WAdd(Rotl(s[1], 5), Sha1F(t, s[2], s[3], s[4])), s[5]), Sha1K(t)), wt),
    s[1], Rotl(s[2], 30), s[3], s[4]>>

\* the rounds a..b-1 on the working state s, by halving
RECURSIVE Sha1Rounds(_, _, _, _)
Sha1Rounds(s, w, a, b) ==
  IF Len(s) = 0 \/ b - a <= 0 THEN s
  ELSE IF b - a = 1 THEN Sha1Round(s, w[a + 1], a)
  ELSE Sha1Rounds(Sha1Rounds(s, w, a, a + ((b - a) \div 2)), w, a + ((b - a) \div 2), b)

\* the five chaining words after the rounds: h + s, word by word
Sha1Sum(h, s) == [i \in 1..5 |-> WAdd(h[i], s[i])]

\* the sixteen big-endian words of a 64-byte block
Sha1Words(blk) ==
  [i \in 1..16 |->
     <<(blk[(4 * i) - 3] * 256) + blk[(4 * i) - 2], (blk[(4 * i) - 1] * 256) + blk[4 * i]>>]

Sha1Block(h, blk) == Sha1Sum(h, Sha1Rounds(h, Sha1Schedule(Sha1Words(blk), 17, 81), 0, 80))

RECURSIVE Sha1Blocks(_, _)
Sha1Blocks(h, bytes) ==
  IF Len(h) = 0 \/ Len(bytes) = 0 THEN h
  ELSE Sha1Blocks(Sha1Block(h, SubSeq(bytes, 1, 64)), SubSeq(bytes, 65, Len(bytes)))

\* the 20 big-endian bytes of the five chaining words
Sha1Digest(h) ==
  [i \in 1..20 |->
     IF ((i - 1) % 4) = 0 THEN h[((i - 1) \div 4) + 1][1] \div 256
     ELSE IF ((i - 1) % 4) = 1 THEN h[((i - 1) \div 4) + 1][1] % 256
     ELSE IF ((i - 1) % 4) = 2 THEN h[((i - 1) \div 4) + 1][2] \div 256
     ELSE h[((i - 1) \div 4) + 1][2] % 256]

\* Sha1::update(m); Sha1::finalize_reset(): the 20-byte digest of m
Sha1(m) ==
  Sha1Digest(Sha1Blocks(<<<<26437, 8961>>, <<61389, 43913>>, <<39098, 56574>>,
                          <<4146, 21622>>, <<50130, 57840>>>>, Sha1Pad(m)))

(***************************************************************************)
(* handshake.rs: the greeting decoder and the handshake response.          *)
(***************************************************************************)
\* the index (0-based) of the first NUL at or after pos, -1 when the loop
\* `let val = pkt[pos]` runs off the end of the packet
RECURSIVE ScanNul(_, _)
ScanNul(pkt, pos) ==
  IF pos >= Len(pkt) THEN -1
  ELSE IF pkt[pos + 1] = 0 THEN pos
  ELSE ScanNul(pkt, pos + 1)

\* `auth_plugin_data_len - 8` on u8: a panic with overflow checks (the debug
\* profile), a wrap modulo 256 without them (the release profile); -1 is the panic
SaltLenMinus8(auth_plugin_data_len, overflow_checks) ==
  IF auth_plugin_data_len >= 8 THEN auth_plugin_data_len - 8
  ELSE IF overflow_checks THEN -1
  ELSE (auth_plugin_data_len + 256) - 8

\* std::cmp::max
max(a, b) == IF a >= b THEN a ELSE b

\* `max(auth_plugin_data_len - 8, 13) as usize`
Part2Len(auth_plugin_data_len, overflow_checks) ==
  max(SaltLenMinus8(auth_plugin_data_len, overflow_checks), 13)

\* HandshakeV10::decode from the greeting's fixed fields on: p0 is the position
\* after the server version's NUL
HandshakeV10_decode_tail(pkt, server_version, p0, overflow_checks) ==
  IF p0 + 21 > Len(pkt) THEN Panic
  ELSE
    LET auth_plugin_data_len == pkt[p0 + 21]
        pos == p0 + 31
        len == Part2Len(auth_plugin_data_len, overflow_checks)
    IN
    IF SaltLenMinus8(auth_plugin_data_len, overflow_checks) < 0 THEN Panic
    ELSE IF (pos + len) - 1 > Len(pkt) THEN Panic
    ELSE
      LET z2 == ScanNul(pkt, pos + len) IN
      IF z2 < 0 THEN Panic
      ELSE
        LET auth_plugin_name == FromUtf8(Slice(pkt, pos + len, z2)) IN
        IF auth_plugin_name.t = "Err" THEN auth_plugin_name
        ELSE Ok([protocol_version |-> pkt[1],
                 server_version |-> server_version,
                 thread_id |-> U32(pkt[p0 + 1], pkt[p0 + 2], pkt[p0 + 3], pkt[p0 + 4]),
                 auth_plugin_data_part_1 |-> Slice(pkt, p0 + 4, p0 + 12),
                 filler |-> pkt[p0 + 13],
                 capability_flags_1 |-> U16(pkt[p0 + 14], pkt[p0 + 15]),
                 character_set |-> pkt[p0 + 16],
                 status_flags |-> U16(pkt[p0 + 17], pkt[p0 + 18]),
                 capability_flags_2 |-> U16(pkt[p0 + 19], pkt[p0 + 20]),
                 auth_plugin_data_len |-> auth_plugin_data_len,
                 reserved |-> Zeros(10),
                 auth_plugin_data_part_2 |-> Slice(pkt, pos, (pos + len) - 1),
                 auth_plugin_name |-> auth_plugin_name.v,
                 consumed_part_2 |-> len,
                 end_pos |-> z2 + 1])

\* HandshakeV10::decode(pkt)
HandshakeV10_decode(pkt, overflow_checks) ==
  IF Len(pkt) = 0 THEN Panic
  ELSE IF pkt[1] # 10 THEN Err("invalid protocol version")
  ELSE
    LET z1 == ScanNul(pkt, 1) IN
    IF z1 < 0 THEN Panic
    ELSE
      LET server_version == FromUtf8(Slice(pkt, 1, z1)) IN
      IF server_version.t = "Err" THEN server_version
      ELSE HandshakeV10_decode_tail(pkt, server_version.v, z1 + 1, overflow_checks)

\* HandshakeV10::auth_plugin_data(&self)
auth_plugin_data(handshake) ==
  handshake.auth_plugin_data_part_1 \o handshake.auth_plugin_data_part_2

\* hash1 XOR hash3, byte by byte
XorBytes(hash1, hash3) == [i \in 1..20 |-> Xor16(hash1[i], hash3[i])]

\* hash3 with hash2 fed to the hasher before the challenge
Hash3_swapped(hash1, salt) == Sha1(Sha1(hash1) \o salt)

\* hash3 of HandshakeResponse41::new, given hash1
Hash3(hash1, salt) == Sha1(salt \o Sha1(hash1))

\* the auth_response block of HandshakeResponse41::new, given hash1
AuthResponseFrom(hash1, salt) == XorBytes(hash1, Hash3(hash1, salt))

\* the auth_response block of HandshakeResponse41::new
AuthResponse(password, salt) == AuthResponseFrom(Sha1(password), salt)

\* the struct literal of HandshakeResponse41::new, given the proof
HandshakeResponse41_Self(username, auth_response, database) ==
  [client_flag |-> <<6591, 41613>>,
   max_packet_size |-> <<256, 0>>,
   character_set |-> 8,
   filler |-> Zeros(23),
   username |-> username,
   auth_response |-> auth_response,
   database |-> database,
   client_plugin_name |->
     <<109, 121, 115, 113, 108, 95, 110, 97, 116, 105, 118, 101, 95,
       112, 97, 115, 115, 119, 111, 114, 100>>]

\* HandshakeResponse41::new(username, password, database, auth_plugin_data)
HandshakeResponse41_new(username, password, database, salt) ==
  HandshakeResponse41_Self(username, AuthResponse(password, salt), database)

\* the fixed connection attributes of HandshakeResponse41::encode, as
\* <<key, value>> pairs
ConnectAttributes ==
  << <<(<<95, 112, 105, 100>>), (<<50, 52, 54>>)>>,
     <<(<<95, 112, 108, 97, 116, 102, 111, 114, 109>>), (<<97, 97, 114, 99, 104, 54, 52>>)>>,
     <<(<<95, 111, 115>>), (<<76, 105, 110, 117, 120>>)>>,
     <<(<<95, 99, 108, 105, 101, 110, 116, 95, 110, 97, 109, 101>>),
       (<<108, 105, 98, 109, 121, 115, 113, 108>>)>>,
     <<(<<111, 115, 95, 117, 115, 101, 114>>), (<<114, 111, 111, 116>>)>>,
     <<(<<95, 99, 108, 105, 101, 110, 116, 95, 118, 101, 114, 115, 105, 111, 110>>),
       (<<56, 46, 51, 46, 48>>)>>,
     <<(<<112, 114, 111, 103, 114, 97, 109, 95, 110, 97, 109, 101>>),
       (<<109, 121, 115, 113, 108>>)>> >>

\* the attribute buffer built by the for_each of HandshakeResponse41::encode
RECURSIVE EncodeAttributes(_)
EncodeAttributes(attrs) ==
  IF Len(attrs) = 0 THEN <<>>
  ELSE
    LET k == attrs[1][1]
        v == attrs[1][2]
    IN <<Len(k) % 256>> \o k \o <<Len(v) % 256>> \o v \o EncodeAttributes(Tail(attrs))

\* encode without the NUL after the database name
HandshakeResponse41_encode_unterminated(r) ==
  U32Bytes(r.client_flag) \o U32Bytes(r.max_packet_size) \o <<r.character_set>>
    \o r.filler \o r.username \o <<0>>
    \o <<Len(r.auth_response) % 256>> \o r.auth_response
    \o r.database \o r.client_plugin_name \o <<0>>
    \o <<Len(EncodeAttributes(ConnectAttributes)) % 256>> \o EncodeAttributes(ConnectAttributes)

\* HandshakeResponse41::encode(&self)
HandshakeResponse41_encode(r) ==
  LET attribute_pkt == EncodeAttributes(ConnectAttributes) IN
  U32Bytes(r.client_flag) \o U32Bytes(r.max_packet_size) \o <<r.character_set>>
    \o r.filler \o r.username \o <<0>>
    \o <<Len(r.auth_response) % 256>> \o r.auth_response
    \o r.database \o <<0>> \o r.client_plugin_name \o <<0>>
    \o <<Len(attribute_pkt) % 256>> \o attribute_pkt

(***************************************************************************)
(* command.rs: COM_QUERY, column definitions, text rows, ERR packets.      *)
(***************************************************************************)
\* ComQuery::new(query)
ComQuery_new(query) ==
  [command |-> 3, parameter_count |-> 0, parameter_set_count |-> 1, query |-> query]

\* encode with a NUL after the query text
ComQuery_encode_terminated(c) ==
  <<c.command, c.parameter_count % 256, c.parameter_set_count % 256>> \o c.query \o <<0>>

\* ComQuery::encode(&self)
ComQuery_encode(c) ==
  <<c.command, c.parameter_count % 256, c.parameter_set_count % 256>> \o c.query

\* the six strings collected in reverse order
RECURSIVE DecodeStrings_reversed(_, _, _, _)
DecodeStrings_reversed(pkt, pos, n, acc) ==
  IF n = 0 THEN Ok(<<acc, pos>>)
  ELSE IF decode_lenenc_string(pkt, pos).t # "Ok" THEN decode_lenenc_string(pkt, pos)
  ELSE DecodeStrings_reversed(pkt, pos + decode_lenenc_string(pkt, pos).v[2], n - 1,
                              <<decode_lenenc_string(pkt, pos).v[1]>> \o acc)

\* the six length-encoded strings at the head of a column definition: the
\* strings read so far and the position, or the first failure
RECURSIVE DecodeStrings(_, _, _, _)
DecodeStrings(pkt, pos, n, acc) ==
  IF n = 0 THEN Ok(<<acc, pos>>)
  ELSE
    LET r == decode_lenenc_string(pkt, pos) IN
    IF r.t # "Ok" THEN r
    ELSE DecodeStrings(pkt, pos + r.v[2], n - 1, Append(acc, r.v[1]))

\* ColumnDefinition41::decode(pkt)
ColumnDefinition41_decode(pkt) ==
  LET strs == DecodeStrings(pkt, 0, 6, <<>>) IN
  IF strs.t # "Ok" THEN strs
  ELSE
    LET s == strs.v[1]
        fixed == decode_lenenc_integer(pkt, strs.v[2])
    IN
    IF fixed.t # "Ok" THEN fixed
    ELSE
      LET pos == strs.v[2] + fixed.v[2] IN
      IF pos + 10 > Len(pkt) THEN Panic
      ELSE Ok([catalog |-> s[1], schema |-> s[2], table |-> s[3], org_table |-> s[4],
               name |-> s[5], org_name |-> s[6],
               length_of_fixed_length_fields |-> fixed.v[1],
               character_set |-> U16(pkt[pos + 1], pkt[pos + 2]),
               column_length |-> U32(pkt[pos + 3], pkt[pos + 4], pkt[pos + 5], pkt[pos + 6]),
               type_ |-> pkt[pos + 7],
               flags |-> U16(pkt[pos + 8], pkt[pos + 9]),
               decimals |-> pkt[pos + 10]])

\* the loop of ResultsetRow::decode with each string put before the others
RECURSIVE ResultsetRow_loop_prepending(_, _, _)
ResultsetRow_loop_prepending(pkt, pos, buf) ==
  IF ~(pos < Len(pkt)) THEN Ok(buf)
  ELSE
    LET r == decode_lenenc_string(pkt, pos) IN
    IF r.t # "Ok" THEN r
    ELSE ResultsetRow_loop_prepending(pkt, pos + r.v[2], <<r.v[1]>> \o buf)

\* the while loop of ResultsetRow::decode from position pos with buf collected
RECURSIVE ResultsetRow_loop(_, _, _)
ResultsetRow_loop(pkt, pos, buf) ==
  IF ~(pos < Len(pkt)) THEN Ok(buf)
  ELSE
    LET r == decode_lenenc_string(pkt, pos) IN
    IF r.t # "Ok" THEN r
    ELSE ResultsetRow_loop(pkt, pos + r.v[2], Append(buf, r.v[1]))

\* ResultsetRow::decode(pkt)
ResultsetRow_decode(pkt) == ResultsetRow_loop(pkt, 0, <<>>)

\* ErrPacket::decode reading the error code with u16::from_be_bytes
ErrPacket_decode_be(pkt) ==
  IF Len(pkt) = 0 THEN Panic
  ELSE IF pkt[1] # 255 THEN Err("not err packet")
  ELSE IF Len(pkt) < 9 THEN Panic
  ELSE IF ~Utf8ValidFrom(Slice(pkt, 3, Len(pkt)), 1) THEN Err("invalid utf-8")
  ELSE Ok([header |-> pkt[1],
           error_code |-> U16(pkt[3], pkt[2]),
           sql_state_marker |-> Slice(pkt, 3, 4),
           sql_state |-> Slice(pkt, 4, 9),
           error_message |-> Slice(pkt, 9, Len(pkt))])

\* ErrPacket::decode(pkt)
ErrPacket_decode(pkt) ==
  IF Len(pkt) = 0 THEN Panic
  ELSE IF pkt[1] # 255 THEN Err("not err packet")
  ELSE IF Len(pkt) < 3 THEN Panic
  ELSE IF Len(pkt) < 4 THEN Panic
  ELSE
    LET sql_state_marker == FromUtf8(Slice(pkt, 3, 4)) IN
    IF sql_state_marker.t = "Err" THEN sql_state_marker
    ELSE IF Len(pkt) < 9 THEN Panic
    ELSE
      LET sql_state == FromUtf8(Slice(pkt, 4, 9)) IN
      IF sql_state.t = "Err" THEN sql_state
      ELSE
        LET error_message == FromUtf8(Slice(pkt, 9, Len(pkt))) IN
        IF error_message.t = "Err" THEN error_message
        ELSE Ok([header |-> pkt[1],
                 error_code |-> U16(pkt[2], pkt[3]),
                 sql_state_marker |-> sql_state_marker.v,
                 sql_state |-> sql_state.v,
                 error_message |-> error_message.v])

\* the decimal digits of n, as `{}` prints an integer
RECURSIVE Decimal(_)
Decimal(n) == IF n < 10 THEN <<48 + n>> ELSE Decimal(n \div 10) \o <<48 + (n % 10)>>

\* ErrPacket::human_readable_text(&self): "ERROR {} ({}): {}"
human_readable_text(e) ==
  <<69, 82, 82, 79, 82, 32>> \o Decimal(e.error_code) \o <<32, 40>> \o e.sql_state
    \o <<41, 58, 32>> \o e.error_message

\* the lower-case hexadecimal digits of n, as char::escape_debug prints \u{..}
RECURSIVE Hex(_)
Hex(n) ==
  LET d == n % 16
      c == IF d < 10 THEN 48 + d ELSE 87 + d
  IN IF n < 16 THEN <<c>> ELSE Hex(n \div 16) \o <<c>>

\* one byte of a string under `{:?}`: quotes, backslashes and ASCII controls
\* are escaped, everything else (bytes of printable characters) is kept
EscapeDebugByte(b) ==
  IF b = 34 THEN <<92, 34>>
  ELSE IF b = 92 THEN <<92, 92>>
  ELSE IF b = 9 THEN <<92, 116>>
  ELSE IF b = 10 THEN <<92, 110>>
  ELSE IF b = 13 THEN <<92, 114>>
  ELSE IF b = 0 THEN <<92, 48>>
  ELSE IF b < 32 \/ b = 127 THEN <<92, 117, 123>> \o Hex(b) \o <<125>>
  ELSE <<b>>

\* the bytes a..b of a string under `{:?}`, one after the other
RECURSIVE DebugBytes(_, _, _)
DebugBytes(s, a, b) ==
  IF a > b THEN <<>>
  ELSE IF a = b THEN EscapeDebugByte(s[a])
  ELSE
    LET mid == a + ((b - a) \div 2) IN
    DebugBytes(s, a, mid) \o DebugBytes(s, mid + 1, b)

\* the content of a string under `{:?}`
DebugStr(s) == DebugBytes(s, 1, Len(s))

\* `{:?}` of the items a..b of a list, already formatted: "x, y, z"
RECURSIVE DebugJoin(_, _, _)
DebugJoin(items, a, b) ==
  IF a > b THEN <<>>
  ELSE IF a = b THEN items[a]
  ELSE
    LET mid == a + ((b - a) \div 2) IN
    DebugJoin(items, a, mid) \o <<44, 32>> \o DebugJoin(items, mid + 1, b)

\* `{:?}` of a ResultsetRow: ResultsetRow(["1", "hello"])
DebugRow(row) ==
  <<82, 101, 115, 117, 108, 116, 115, 101, 116, 82, 111, 119, 40, 91>>
    \o DebugJoin([i \in 1..Len(row) |-> <<34>> \o DebugStr(row[i]) \o <<34>>], 1, Len(row))
    \o <<93, 41>>

\* format!("{:?}", rows) of Connection::query
DebugRows(rows) ==
  <<91>> \o DebugJoin([i \in 1..Len(rows) |-> DebugRow(rows[i])], 1, Len(rows)) \o <<93>>

(***************************************************************************)
(* The other end of the stream.  The hostile server may send any packet    *)
(* of a small pool at any point, well framed or not; the bulk server sends *)
(* only well-formed packets, which keeps long result sets within reach;    *)
(* the orderly server answers each request with one complete response and  *)
(* then stays silent, and what it has sent stays in the stream until read. *)
(***************************************************************************)
\* the greeting of the test fixture up to the declared salt length, with the
\* given protocol version and server version
GreetingHead(version, server_version) ==
  <<version>> \o server_version
    \o <<0, 8, 0, 0, 0, 9, 18, 1, 63, 65, 34, 51, 54, 0, 255, 255, 255, 2, 0, 255, 223>>

\* n bytes of salt: the fixture's second fragment, continued
SaltBytes(n) ==
  [i \in 1..n |->
     IF i <= 12 THEN <<21, 2, 37, 13, 68, 12, 12, 44, 79, 91, 106, 85>>[i]
     ELSE ((7 * i) % 250) + 1]

\* a greeting declaring salt length L whose second fragment holds n salt bytes
\* and a NUL, followed by the plugin name
MkGreeting(version, server_version, L, n) ==
  GreetingHead(version, server_version) \o <<L>> \o Zeros(10) \o SaltBytes(n) \o <<0>>
    \o <<109, 121, 115, 113, 108, 95, 110, 97, 116, 105, 118, 101, 95,
         112, 97, 115, 115, 119, 111, 114, 100, 0>>

\* the greeting of test_handshake_v10
FixtureGreeting == MkGreeting(10, <<56, 46, 51, 46, 48>>, 21, 12)

GreetingPool(srv) ==
  IF srv = "bulk" THEN {FixtureGreeting}
  ELSE {FixtureGreeting,
        <<>>,
        SubSeq(FixtureGreeting, 1, 30),
        MkGreeting(9, <<56, 46, 51, 46, 48>>, 21, 12),
        MkGreeting(10, <<56, 255, 48>>, 21, 12),
        MkGreeting(10, <<56, 46, 51, 46, 48>>, 0, 12),
        MkGreeting(10, <<56, 46, 51, 46, 48>>, 0, 247),
        MkGreeting(10, <<56, 46, 51, 46, 48>>, 7, 12),
        MkGreeting(10, <<56, 46, 51, 46, 48>>, 8, 12),
        MkGreeting(10, <<56, 46, 51, 46, 48>>, 22, 13),
        MkGreeting(10, <<56, 46, 51, 46, 48>>, 22, 12),
        MkGreeting(10, <<56, 46, 51, 46, 48>>, 30, 21)}

\* an OK packet: header 0x00, no affected rows, no insert id, status, warnings
OkPacketBytes == <<0, 0, 0, 2, 0, 0, 0>>
\* ERR 1064 (42000): bad
ErrPacketBytes == <<255, 40, 4, 35, 52, 50, 48, 48, 48, 98, 97, 100>>
\* EOF: header 0xFE, warnings, status
EofPacketBytes == <<254, 0, 0, 2, 0>>
\* a column definition: catalog "def", name "1", 12 fixed bytes
ColumnPacketBytes ==
  <<3, 100, 101, 102, 0, 0, 0, 1, 49, 0, 12, 63, 0, 1, 0, 0, 0, 8, 129, 0, 0, 0, 0>>
\* the row ["1", "hello"]
RowPacketBytes == <<1, 49, 5, 104, 101, 108, 108, 111>>

ReplyPool(srv) ==
  IF srv = "bulk" THEN {OkPacketBytes}
  ELSE {OkPacketBytes, ErrPacketBytes, <<254>>, <<>>}

FirstPool(srv) ==
  IF srv = "bulk" THEN {<<1>>}
  ELSE {<<0>>, <<1>>, <<2>>, OkPacketBytes, <<>>,
        ErrPacketBytes, <<255>>, <<255, 40, 4, 255>>, <<255, 40, 4, 35, 52, 50, 48, 48, 48, 255>>}

ColumnPool(srv) ==
  IF srv = "bulk" THEN {ColumnPacketBytes}
  ELSE {ColumnPacketBytes, <<>>, SubSeq(ColumnPacketBytes, 1, 15),
        <<0, 0, 0, 0, 0, 0, 251>>, <<1, 255>>}

\* packets the server may send where a row or the terminator is due, after
\* n rows of the result set
RowPool(srv, n) ==
  IF srv = "bulk" THEN (IF n < BulkRows THEN {RowPacketBytes} ELSE {}) \cup {EofPacketBytes}
  ELSE (IF n < MaxRows THEN {RowPacketBytes, <<1, 50>>, <<2, 195, 169>>} ELSE {})
         \cup {EofPacketBytes, <<>>, <<1, 255>>, <<5, 49>>}

\* how the bytes of a packet reach the client
Deliveries(srv) ==
  IF srv = "bulk" THEN {"whole"} ELSE {"whole", "wrong_seq", "cut_header", "cut_payload"}

\* the 4-byte header and the payload, as the peer's framing writes them
Frame(payload, seq) ==
  <<Len(payload) % 256, (Len(payload) \div 256) % 256, (Len(payload) \div 65536) % 256, seq>>
    \o payload

\* the bytes the stream yields before it ends, for a packet sent while the
\* client expects sequence number `expected`
Wire(payload, delivery, expected) ==
  IF delivery = "whole" THEN Frame(payload, expected)
  ELSE IF delivery = "wrong_seq" THEN Frame(payload, (expected + 1) % 256)
  ELSE IF delivery = "cut_header" THEN SubSeq(Frame(payload, expected), 1, 2)
  ELSE SubSeq(Frame(payload, expected), 1, 3 + Len(payload))

\* the SQL texts the caller submits: "SELECT 1", "", and a text with a quote,
\* a backslash, a double quote, a NUL and a two-byte character
SqlPool(srv) ==
  {<<83, 69, 76, 69, 67, 84, 32, 49>>}
    \cup (IF srv = "bulk" THEN {} ELSE {<<>>})
    \cup (IF srv = "orderly" THEN {<<39, 92, 34, 0, 195, 169>>} ELSE {})

\* the bytes of the packets of one message, numbered from seq on
RECURSIVE Frames(_, _)
Frames(payloads, seq) ==
  IF Len(payloads) = 0 THEN <<>>
  ELSE Frame(payloads[1], seq % 256) \o Frames(Tail(payloads), seq + 1)

\* k copies of the row ["1", "hello"]
RowPackets(k) == [i \in 1..k |-> RowPacketBytes]

\* the row of one value of 300 bytes "111...": the length 300 is sent as 0xFC
\* and two little-endian bytes
LongValueRowBytes == <<252, 44, 1>> \o [i \in 1..300 |-> 49]

\* the complete responses of the orderly server to a command: an ERR packet,
\* an OK packet, result sets of two columns with 0..MaxRows rows, a result
\* set of one column whose first row holds the latin1 byte 0xE9, and a result
\* set of one column and one row whose value has 300 bytes
OrderlyResponses ==
  {<<ErrPacketBytes>>, <<OkPacketBytes>>,
   <<(<<1>>), ColumnPacketBytes, (<<1, 233>>), (<<1, 49>>), EofPacketBytes>>,
   <<(<<1>>), ColumnPacketBytes, LongValueRowBytes, EofPacketBytes>>}
    \cup {<<(<<2>>), ColumnPacketBytes, ColumnPacketBytes>> \o RowPackets(k) \o <<EofPacketBytes>> :
            k \in 0..MaxRows}

\* whether the stream holds a whole packet: read_packet's two read_exact
\* calls return without waiting
Readable(stream_) ==
  /\ Len(stream_) >= 4
  /\ Len(stream_) >= 4 + (stream_[1] + (256 * stream_[2]) + (65536 * stream_[3]))

\* what a call of read_packet may find: the bytes it is given and the stream
\* it leaves.  The hostile and bulk servers send a packet of the pool for the
\* call; from the orderly server the client takes what is in the stream, the
\* header alone when its sequence byte is refused, and waits when the stream
\* holds no whole packet
Incoming(srv, pool, stream_, expected) ==
  IF srv # "orderly"
  THEN {[wire |-> Wire(p, d, expected), rest |-> stream_] : p \in pool, d \in Deliveries(srv)}
  ELSE IF ~Readable(stream_) THEN {}
  ELSE IF stream_[4] # expected
  THEN {[wire |-> SubSeq(stream_, 1, 4), rest |-> SubSeq(stream_, 5, Len(stream_))]}
  ELSE
    LET n == 4 + (stream_[1] + (256 * stream_[2]) + (65536 * stream_[3]))
    IN {[wire |-> SubSeq(stream_, 1, n), rest |-> SubSeq(stream_, n + 1, Len(stream_))]}

\* the passwords of ConnectionOptions: "" and "root"
PasswordPool == {<<>>, <<114, 111, 111, 116>>}

(***************************************************************************)
(* connection.rs: the packet transport.                                    *)
(***************************************************************************)
\* `self.sequence += 1` on u8: -1 is the panic of a build with overflow checks
NextSequence(sequence, checks) ==
  IF sequence < 255 THEN sequence + 1
  ELSE IF checks THEN -1
  ELSE 0

\* read_packet with the counter advanced before the sequence byte is compared
read_packet_counting(sequence, wire, checks) ==
  IF Len(wire) < 4 THEN [res |-> Err("failed to fill whole buffer"), sequence |-> sequence]
  ELSE IF NextSequence(sequence, checks) < 0 THEN [res |-> Panic, sequence |-> sequence]
  ELSE IF wire[4] # sequence THEN
    [res |-> Err("invalid sequence"), sequence |-> NextSequence(sequence, checks)]
  ELSE IF Len(wire) < 4 + (wire[1] + (256 * wire[2]) + (65536 * wire[3])) THEN
    [res |-> Err("failed to fill whole buffer"), sequence |-> NextSequence(sequence, checks)]
  ELSE [res |-> Ok(Slice(wire, 4, 4 + (wire[1] + (256 * wire[2]) + (65536 * wire[3])))),
        sequence |-> NextSequence(sequence, checks)]

\* read_packet that returns the bytes it got when the stream ends within the
\* payload
read_packet_lenient(sequence, wire, checks) ==
  IF Len(wire) < 4 THEN [res |-> Err("failed to fill whole buffer"), sequence |-> sequence]
  ELSE IF wire[4] # sequence THEN [res |-> Err("invalid sequence"), sequence |-> sequence]
  ELSE IF NextSequence(sequence, checks) < 0 THEN [res |-> Panic, sequence |-> sequence]
  ELSE [res |-> Ok(Slice(wire, 4, Len(wire))), sequence |-> NextSequence(sequence, checks)]

\* Connection::read_packet on a stream that yields `wire` and then ends: the
\* result and the counter it leaves
read_packet(sequence, wire, checks) ==
  IF Len(wire) < 4 THEN [res |-> Err("failed to fill whole buffer"), sequence |-> sequence]
  ELSE
    LET packet_len == wire[1] + (256 * wire[2]) + (65536 * wire[3])
        packet_seq == wire[4]
    IN
    IF packet_seq # sequence THEN [res |-> Err("invalid sequence"), sequence |-> sequence]
    ELSE IF NextSequence(sequence, checks) < 0 THEN [res |-> Panic, sequence |-> sequence]
    ELSE IF Len(wire) < 4 + packet_len THEN
      [res |-> Err("failed to fill whole buffer"), sequence |-> NextSequence(sequence, checks)]
    ELSE [res |-> Ok(Slice(wire, 4, 4 + packet_len)),
          sequence |-> NextSequence(sequence, checks)]

\* write_packet without `self.sequence += 1`
write_packet_unnumbered(sequence, payload, checks, sink_ok) ==
  [res |-> IF sink_ok THEN Ok(<<>>) ELSE Err("broken pipe"),
   sequence |-> sequence,
   bytes |-> <<Len(payload) % 256, (Len(payload) \div 256) % 256,
               (Len(payload) \div 65536) % 256, sequence>> \o payload]

\* Connection::write_packet: the result, the counter it leaves and the bytes
\* handed to the stream; `sink_ok` is whether write_all and flush succeed
write_packet(sequence, payload, checks, sink_ok) ==
  IF NextSequence(sequence, checks) < 0 THEN
    [res |-> Panic, sequence |-> sequence, bytes |-> <<>>]
  ELSE
    LET packet_len == Len(payload)
        header == <<packet_len % 256, (packet_len \div 256) % 256,
                    (packet_len \div 65536) % 256, sequence>>
    IN [res |-> IF sink_ok THEN Ok(<<>>) ELSE Err("broken pipe"),
        sequence |-> NextSequence(sequence, checks),
        bytes |-> header \o payload]

(***************************************************************************)
(* connection.rs: Connection::new, handshake and query, one step per       *)
(* packet.                                                                 *)
(***************************************************************************)
VARIABLES
  pc,               \* where the caller and the Connection's methods are
  overflow_checks,  \* whether the build checks arithmetic overflow
  server,           \* the kind of peer: "hostile", "bulk" or "orderly"
  options,          \* Connection.options
  sequence,         \* Connection.sequence
  handshake,        \* the local `handshake` of Connection::handshake
  col_count,        \* the local `col_count` of Connection::query
  cols,             \* the local `cols` of Connection::query
  rows,             \* the local `rows` of Connection::query
  result,           \* what the last call of Connection::new or query returned
  queries,          \* the calls of query made so far
  exchange,         \* the packets read and written in the current exchange
  hslog,            \* the handshake's packets once it has ended: for each
                    \* its direction, sequence number and first byte
  io,               \* the last call of read_packet or write_packet
  failed,           \* whether a call has returned an error
  sql,              \* the argument of the last call of query
  stream,           \* the bytes the orderly server has sent and the client
                    \* has not read
  call              \* the last call of a codec function on its own: its
                    \* arguments and what it returned

vars == <<pc, overflow_checks, server, options, sequence, handshake, col_count, cols,
          rows, result, queries, exchange, hslog, io, failed, sql, stream, call>>

None == [t |-> "None"]

Init ==
  /\ pc = "start"
  /\ overflow_checks \in BOOLEAN
  /\ server \in {"hostile", "bulk", "orderly"}
  /\ options \in {[username |-> <<114, 111, 111, 116>>, password |-> pw,
                   database |-> <<116, 101, 115, 116>>] : pw \in PasswordPool}
  /\ sequence = 0
  /\ handshake = None
  /\ col_count = 0
  /\ cols = <<>>
  /\ rows = <<>>
  /\ result = None
  /\ queries = 0
  /\ exchange = <<>>
  /\ hslog = <<>>
  /\ io = [op |-> "none"]
  /\ failed = FALSE
  /\ sql = <<>>
  /\ stream = <<>>
  /\ call = [op |-> "none"]

\* what a call of read_packet or write_packet was given and what it did
Observed(op, wire, r) ==
  [op |-> op, expected |-> sequence, wire |-> wire,
   res |-> r.res, after |-> r.sequence]

Packet(dir, seq, payload) == [dir |-> dir, seq |-> seq, payload |-> payload]

\* the first byte of a payload, -1 for an empty one
FirstByte(payload) == IF Len(payload) = 0 THEN -1 ELSE payload[1]

\* what hslog keeps of an exchange
Summary(xchg) ==
  [i \in 1..Len(xchg) |->
     [dir |-> xchg[i].dir, seq |-> xchg[i].seq, first |-> FirstByte(xchg[i].payload)]]

\* Connection::new or Connection::handshake ends with res: the caller holds a
\* Connection only if res is Ok
HandshakeReturns(res) ==
  /\ pc' = (IF res.t = "Panic" THEN "panicked" ELSE IF res.t = "Ok" THEN "ready" ELSE "closed")
  /\ result' = res
  /\ failed' = (failed \/ res.t = "Err")

\* Connection::query ends with res: the Connection stays with the caller
QueryReturns(res) ==
  /\ pc' = (IF res.t = "Panic" THEN "panicked" ELSE "ready")
  /\ result' = res
  /\ failed' = (failed \/ res.t = "Err")

\* Connection::new up to the first read of handshake: connect, sequence = 0
Connection_new ==
  /\ pc = "start"
  /\ \E connected \in (IF server = "hostile" THEN BOOLEAN ELSE {TRUE}) :
       IF connected
       THEN /\ pc' = "hs_greeting"
            /\ sequence' = 0
            /\ stream' = IF server = "orderly" THEN Frame(FixtureGreeting, 0) ELSE stream
            /\ UNCHANGED <<result, failed>>
       ELSE /\ HandshakeReturns(Err("connection refused"))
            /\ UNCHANGED <<sequence, stream>>
  /\ UNCHANGED <<overflow_checks, server, options, handshake, col_count, cols, rows,
                 queries, exchange, hslog, io, sql, call>>

\* handshake: HandshakeV10::decode(self.read_packet()?)?
handshake_read_greeting ==
  /\ pc = "hs_greeting"
  /\ \E inc \in Incoming(server, GreetingPool(server), stream, sequence) :
       LET wire == inc.wire
           r == read_packet(sequence, wire, overflow_checks)
           decoded == IF r.res.t = "Ok" THEN HandshakeV10_decode(r.res.v, overflow_checks)
                      ELSE r.res
       IN
       /\ sequence' = r.sequence
       /\ stream' = inc.rest
       /\ io' = Observed("read", wire, r)
       /\ exchange' = IF r.res.t = "Ok"
                      THEN Append(exchange, Packet("read", wire[4], r.res.v))
                      ELSE exchange
       /\ IF decoded.t = "Ok"
          THEN /\ handshake' = decoded.v
               /\ pc' = "hs_response"
               /\ UNCHANGED <<result, failed, hslog>>
          ELSE /\ HandshakeReturns(decoded)
               /\ hslog' = Summary(exchange')
               /\ UNCHANGED handshake
  /\ UNCHANGED <<overflow_checks, server, options, col_count, cols, rows, queries, sql, call>>

\* handshake: self.write_packet(&response.encode())?
handshake_write_response ==
  /\ pc = "hs_response"
  /\ \E payload \in {HandshakeResponse41_encode(
                       HandshakeResponse41_new(options.username, options.password,
                                               options.database,
                                               auth_plugin_data(handshake)))} :
       \E sink_ok \in (IF server = "hostile" THEN BOOLEAN ELSE {TRUE}) :
       \E r \in {write_packet(sequence, payload, overflow_checks, sink_ok)} :
         /\ sequence' = r.sequence
         /\ stream' = IF server = "orderly" /\ r.res.t = "Ok"
                      THEN stream \o Frame(OkPacketBytes, r.sequence)
                      ELSE stream
         /\ io' = Observed("write", r.bytes, r)
         /\ exchange' = IF r.res.t = "Ok"
                        THEN Append(exchange, Packet("write", r.bytes[4], payload))
                        ELSE exchange
         /\ IF r.res.t = "Ok"
            THEN /\ pc' = "hs_reply"
                 /\ UNCHANGED <<result, failed, hslog>>
            ELSE /\ HandshakeReturns(r.res)
                 /\ hslog' = Summary(exchange')
  /\ handshake' = None
  /\ UNCHANGED <<overflow_checks, server, options, col_count, cols, rows, queries, sql, call>>

\* the reply check without the comparison with 0x00
ReplyCheck_lenient(pkt) == IF Len(pkt) = 0 THEN Panic ELSE Ok(<<>>)

\* the check `pkt[0] != 0x00` of handshake on the server's reply
ReplyCheck(pkt) ==
  IF Len(pkt) = 0 THEN Panic
  ELSE IF pkt[1] # 0 THEN Err("not ok packet")
  ELSE Ok(<<>>)

\* handshake: the reply to the response, and the return of Connection::new
handshake_read_reply ==
  /\ pc = "hs_reply"
  /\ \E inc \in Incoming(server, ReplyPool(server), stream, sequence) :
       LET wire == inc.wire
           r == read_packet(sequence, wire, overflow_checks)
           res == IF r.res.t = "Ok" THEN ReplyCheck(r.res.v) ELSE r.res
       IN
       /\ sequence' = r.sequence
       /\ stream' = inc.rest
       /\ io' = Observed("read", wire, r)
       /\ exchange' = IF r.res.t = "Ok"
                      THEN Append(exchange, Packet("read", wire[4], r.res.v))
                      ELSE exchange
       /\ hslog' = Summary(exchange')
       /\ HandshakeReturns(res)
  /\ UNCHANGED <<overflow_checks, server, options, handshake, col_count, cols, rows, queries,
                 sql, call>>

\* query: self.sequence = 0 and the write of the command packet
query_write ==
  /\ pc = "ready"
  /\ queries < MaxQueries
  /\ \E text \in SqlPool(server), sink_ok \in (IF server = "hostile" THEN BOOLEAN ELSE {TRUE}),
        response \in (IF server = "orderly" THEN OrderlyResponses ELSE {<<>>}) :
       LET payload == ComQuery_encode(ComQuery_new(text))
           r == write_packet(0, payload, overflow_checks, sink_ok)
       IN
       /\ sql' = text
       /\ sequence' = r.sequence
       /\ stream' = IF r.res.t = "Ok" THEN stream \o Frames(response, r.sequence) ELSE stream
       /\ io' = [Observed("write", r.bytes, r) EXCEPT !.expected = 0]
       /\ exchange' = IF r.res.t = "Ok"
                      THEN <<Packet("write", r.bytes[4], payload)>>
                      ELSE <<>>
       /\ IF r.res.t = "Ok"
          THEN /\ pc' = "q_first"
               /\ result' = None
               /\ UNCHANGED failed
          ELSE QueryReturns(r.res)
  /\ queries' = queries + 1
  /\ col_count' = 0
  /\ cols' = <<>>
  /\ rows' = <<>>
  /\ UNCHANGED <<overflow_checks, server, options, handshake, hslog, call>>

\* the first packet of the response with the column count taken one too high
FirstPacket_plus(pkt) ==
  IF Len(pkt) = 0 THEN [returns |-> TRUE, res |-> Panic]
  ELSE IF pkt[1] = 255 THEN
    LET err == ErrPacket_decode(pkt) IN
    IF err.t = "Ok" THEN [returns |-> TRUE, res |-> Ok(human_readable_text(err.v))]
    ELSE [returns |-> TRUE, res |-> err]
  ELSE [returns |-> FALSE, col_count |-> pkt[1] + 1]

\* query: what the first packet of the response leads to: a returned value, or
\* the column count to go on with
FirstPacket(pkt) ==
  IF Len(pkt) = 0 THEN [returns |-> TRUE, res |-> Panic]
  ELSE IF pkt[1] = 255 THEN
    LET err == ErrPacket_decode(pkt) IN
    IF err.t = "Ok" THEN [returns |-> TRUE, res |-> Ok(human_readable_text(err.v))]
    ELSE [returns |-> TRUE, res |-> err]
  ELSE [returns |-> FALSE, col_count |-> pkt[1]]

\* query: the first packet of the response
query_read_first ==
  /\ pc = "q_first"
  /\ \E inc \in Incoming(server, FirstPool(server), stream, sequence) :
       LET wire == inc.wire
           r == read_packet(sequence, wire, overflow_checks)
           f == IF r.res.t = "Ok" THEN FirstPacket(r.res.v)
                ELSE [returns |-> TRUE, res |-> r.res]
       IN
       /\ sequence' = r.sequence
       /\ stream' = inc.rest
       /\ io' = Observed("read", wire, r)
       /\ exchange' = IF r.res.t = "Ok"
                      THEN Append(exchange, Packet("read", wire[4], r.res.v))
                      ELSE exchange
       /\ IF f.returns
          THEN /\ QueryReturns(f.res)
               /\ UNCHANGED col_count
          ELSE /\ col_count' = f.col_count
               /\ pc' = (IF f.col_count = 0 THEN "q_rows" ELSE "q_cols")
               /\ UNCHANGED <<result, failed>>
  /\ UNCHANGED <<overflow_checks, server, options, handshake, cols, rows, queries, hslog,
                 sql, call>>

\* query: one turn of `for _ in 0..col_count`
query_read_column ==
  /\ pc = "q_cols"
  /\ \E inc \in Incoming(server, ColumnPool(server), stream, sequence) :
       LET wire == inc.wire
           r == read_packet(sequence, wire, overflow_checks)
           col == IF r.res.t = "Ok" THEN ColumnDefinition41_decode(r.res.v) ELSE r.res
       IN
       /\ sequence' = r.sequence
       /\ stream' = inc.rest
       /\ io' = Observed("read", wire, r)
       /\ exchange' = IF r.res.t = "Ok"
                      THEN Append(exchange, Packet("read", wire[4], r.res.v))
                      ELSE exchange
       /\ IF col.t = "Ok"
          THEN /\ cols' = Append(cols, col.v)
               /\ pc' = (IF Len(cols) + 1 < col_count THEN "q_cols" ELSE "q_rows")
               /\ UNCHANGED <<result, failed>>
          ELSE /\ QueryReturns(col)
               /\ UNCHANGED cols
  /\ UNCHANGED <<overflow_checks, server, options, handshake, col_count, rows, queries, hslog,
                 sql, call>>

\* a row list that keeps only the row pushed last
PushRow_replacing(rows_, row) == <<row>>

\* query: rows.push(row)
PushRow(rows_, row) == Append(rows_, row)

\* query: what a packet read by the row loop leads to: the end of the loop, a
\* row to push, or a failure
RowPacket(pkt) ==
  IF Len(pkt) = 0 THEN [break |-> FALSE, row |-> Panic]
  ELSE IF pkt[1] = 254 THEN [break |-> TRUE]
  ELSE [break |-> FALSE, row |-> ResultsetRow_decode(pkt)]

\* query: one turn of the row loop, and the return once it breaks
query_read_row ==
  /\ pc = "q_rows"
  /\ \E inc \in Incoming(server, RowPool(server, Len(rows)), stream, sequence) :
       LET wire == inc.wire
           r == read_packet(sequence, wire, overflow_checks)
           f == IF r.res.t = "Ok" THEN RowPacket(r.res.v)
                ELSE [break |-> FALSE, row |-> r.res]
       IN
       /\ sequence' = r.sequence
       /\ stream' = inc.rest
       /\ io' = Observed("read", wire, r)
       /\ exchange' = IF r.res.t = "Ok"
                      THEN Append(exchange, Packet("read", wire[4], r.res.v))
                      ELSE exchange
       /\ IF f.break
          THEN /\ QueryReturns(Ok(DebugRows(rows)))
               /\ UNCHANGED rows
          ELSE IF f.row.t = "Ok"
          THEN /\ rows' = PushRow(rows, f.row.v)
               /\ UNCHANGED <<pc, result, failed>>
          ELSE /\ QueryReturns(f.row)
               /\ UNCHANGED rows
  /\ UNCHANGED <<overflow_checks, server, options, handshake, col_count, cols, queries, hslog,
                 sql, call>>

Next ==
  \/ Connection_new
  \/ handshake_read_greeting
  \/ handshake_write_response
  \/ handshake_read_reply
  \/ query_write
  \/ query_read_first
  \/ query_read_column
  \/ query_read_row

Spec == Init /\ [][Next]_vars

(***************************************************************************)
(* The codec functions on their own: each is applied once to an input of a *)
(* bounded set, and `call` keeps the input and what the function returned. *)
(***************************************************************************)
\* bytes that may stand before the offset
OffsetPrefixes == {<<>>, <<254>>, <<7, 252, 0>>}

\* nine bytes that may follow a discriminant
IntegerBodies ==
  {<<1, 2, 3, 4, 5, 6, 7, 8, 9>>, <<0, 0, 0, 0, 0, 0, 0, 0, 0>>,
   <<255, 255, 255, 255, 255, 255, 255, 255, 255>>, <<0, 1, 0, 0, 128, 0, 0, 255, 7>>,
   <<250, 0, 252, 0, 0, 0, 0, 1, 0>>}

\* buffers for decode_lenenc_integer: every first byte, followed by 0..9 bytes
IntegerInputs ==
  {[pkt |-> pre \o <<head>> \o SubSeq(body, 1, k), pos |-> Len(pre)] :
     pre \in OffsetPrefixes, head \in 0..255, body \in IntegerBodies, k \in {0, 1, 2, 3, 7, 8, 9}}

\* valid UTF-8 strings of 0..250 bytes: with characters of 1, 2, 3 and 4
\* bytes, and two of 250 bytes
ValidStrings ==
  {<<>>, <<97>>, <<100, 101, 102>>, <<195, 169>>, <<226, 130, 172, 33>>,
   <<240, 159, 152, 128>>, [i \in 1..250 |-> 97 + (i % 26)],
   [i \in 1..250 |-> IF (i % 2) = 1 THEN 195 ELSE 169]}

\* byte strings that are not UTF-8
InvalidStrings == {<<255>>, <<195>>, <<97, 128, 98>>, <<233>>}

\* buffers for decode_lenenc_string: a length byte and a string at the offset
\* ("valid", "invalid" by the string), a length byte that announces more than
\* the buffer holds ("truncated"), an offset at the end of the buffer ("at_end")
StringInputs ==
  {[pkt |-> pre \o <<Len(str)>> \o str \o post, pos |-> Len(pre), str |-> str, kind |-> "valid"] :
     pre \in OffsetPrefixes, str \in ValidStrings, post \in {<<>>, <<7>>, <<195, 40>>}}
  \cup
  {[pkt |-> pre \o <<Len(str)>> \o str, pos |-> Len(pre), str |-> str, kind |-> "invalid"] :
     pre \in OffsetPrefixes, str \in InvalidStrings}
  \cup
  {[pkt |-> pre \o <<Len(str) + more>> \o str, pos |-> Len(pre), str |-> str,
    kind |-> "truncated"] :
     pre \in OffsetPrefixes, str \in {<<>>, <<97>>, <<100, 101, 102>>}, more \in {1, 5}}
  \cup
  {[pkt |-> pre, pos |-> Len(pre), str |-> <<>>, kind |-> "at_end"] : pre \in OffsetPrefixes}

\* HandshakeResponse41 values for encode: user names, proofs of 0, 20 and 255
\* bytes, database names, two settings of the numeric fields
ResponseInputs ==
  {[HandshakeResponse41_Self(username, proof, database) EXCEPT
      !.client_flag = num[1], !.max_packet_size = num[2], !.character_set = num[3]] :
     username \in {<<>>, <<114, 111, 111, 116>>, <<195, 169, 39>>},
     proof \in {<<>>,
                <<213, 210, 255, 44, 148, 146, 149, 111, 127, 250, 108, 89, 33, 132, 241,
                  126, 223, 190, 75, 64>>,
                [i \in 1..255 |-> i]},
     database \in {<<>>, <<116, 101, 115, 116>>},
     num \in {<<(<<6591, 41613>>), (<<256, 0>>), 8>>, <<(<<258, 772>>), (<<0, 65535>>), 255>>}}

\* arguments for HandshakeResponse41::new: non-empty passwords (one longer
\* than a SHA-1 block) and challenges of 20 and 21 bytes
NewInputs ==
  {[username |-> username, password |-> password, database |-> database, salt |-> salt] :
     username \in {<<114, 111, 111, 116>>, <<97>>},
     password \in {<<114, 111, 111, 116>>, <<97>>, [i \in 1..70 |-> 32 + i]},
     database \in {<<116, 101, 115, 116>>, <<>>},
     salt \in {SubSeq(FixtureGreeting, 12, 19) \o SaltBytes(12), SaltBytes(21), Zeros(20)}}

\* a u64 (four limbs, highest first) as a length-encoded integer on the wire
LenencIntegerBytes(v) ==
  IF v[1] = 0 /\ v[2] = 0 /\ v[3] = 0 /\ v[4] <= 250 THEN <<v[4]>>
  ELSE IF v[1] = 0 /\ v[2] = 0 /\ v[3] = 0 THEN <<252, v[4] % 256, v[4] \div 256>>
  ELSE IF v[1] = 0 /\ v[2] = 0 /\ v[3] < 256 THEN <<253, v[4] % 256, v[4] \div 256, v[3]>>
  ELSE <<254, v[4] % 256, v[4] \div 256, v[3] % 256, v[3] \div 256,
         v[2] % 256, v[2] \div 256, v[1] % 256, v[1] \div 256>>

\* the column definition packet a server sends for c
ColumnDefinition41_wire(c) ==
  <<Len(c.catalog)>> \o c.catalog \o <<Len(c.schema)>> \o c.schema
    \o <<Len(c.table)>> \o c.table \o <<Len(c.org_table)>> \o c.org_table
    \o <<Len(c.name)>> \o c.name \o <<Len(c.org_name)>> \o c.org_name
    \o LenencIntegerBytes(c.length_of_fixed_length_fields)
    \o <<c.character_set % 256, c.character_set \div 256>>
    \o <<c.column_length[2] % 256, c.column_length[2] \div 256,
         c.column_length[1] % 256, c.column_length[1] \div 256>>
    \o <<c.type_>> \o <<c.flags % 256, c.flags \div 256>> \o <<c.decimals>>

\* ColumnDefinition41 values with strings of 0..250 bytes, fixed-field lengths
\* of every encoded width and fixed fields at and between their extremes
ColumnInputs ==
  {[catalog |-> <<100, 101, 102>>, schema |-> str[1], table |-> str[2], org_table |-> str[3],
    name |-> str[4], org_name |-> str[5],
    length_of_fixed_length_fields |-> fixed,
    character_set |-> num[1], column_length |-> num[2], type_ |-> num[3],
    flags |-> num[4], decimals |-> num[5]] :
     str \in {<<(<<>>), (<<>>), (<<>>), (<<49>>), (<<>>)>>,
              <<(<<116, 101, 115, 116>>), (<<116>>), (<<116, 49>>), (<<105, 100>>), (<<105>>)>>,
              <<(<<195, 169>>), (<<226, 130, 172, 33>>), (<<>>),
                ([i \in 1..250 |-> 97 + (i % 26)]), (<<240, 159, 152, 128>>)>>},
     fixed \in {<<0, 0, 0, 12>>, <<0, 0, 0, 250>>, <<0, 0, 0, 251>>, <<0, 0, 0, 65535>>,
                <<0, 0, 1, 0>>, <<0, 0, 255, 65535>>, <<0, 0, 256, 0>>,
                <<65535, 65535, 65535, 65535>>},
     num \in {<<63, (<<0, 1>>), 8, 129, 0>>, <<0, (<<0, 0>>), 0, 0, 0>>,
              <<65535, (<<65535, 65535>>), 255, 65535, 255>>,
              <<258, (<<258, 772>>), 253, 4097, 31>>}}

\* the values of rows handed to ResultsetRow::decode: of 0, 1, 2, 5 and 250
\* bytes, with characters of one and two bytes
RowStrings ==
  {<<>>, <<49>>, <<104, 101, 108, 108, 111>>, <<195, 169>>,
   [i \in 1..250 |-> IF (i % 2) = 1 THEN 195 ELSE 169]}

\* rows of 0..MaxValues values
RowInputs == UNION {[1..k -> RowStrings] : k \in 0..MaxValues}

\* the row packet a server sends for values of at most 250 bytes: each value
\* after its length byte
RECURSIVE ResultsetRow_wire(_)
ResultsetRow_wire(strs) ==
  IF Len(strs) = 0 THEN <<>>
  ELSE <<Len(strs[1])>> \o strs[1] \o ResultsetRow_wire(Tail(strs))

\* payloads handed to write_packet: of 0, 1, 255, 256 and 257 bytes and one of
\* MaxPayload bytes
FramePayloads ==
  {[i \in 1..n |-> (i * 7) % 256] : n \in {0, 1, 255, 256, 257, MaxPayload}}

\* the values of the counter a payload is written with: all of them for the
\* short payloads, two of them for the longest
FrameCounters(payload) == IF Len(payload) > 257 THEN {0, 254} ELSE 0..255

\* no codec function has been called yet
CodecIdle == call.op = "none"

CodecInit ==
  /\ Init
  /\ server = "orderly"
  /\ options.password = <<>>

ConnectionUnchanged ==
  UNCHANGED <<pc, overflow_checks, server, options, sequence, handshake, col_count, cols,
              rows, result, queries, exchange, hslog, io, failed, sql, stream>>

call_decode_lenenc_integer ==
  /\ CodecIdle
  /\ \E x \in IntegerInputs :
       call' = [op |-> "decode_lenenc_integer", pkt |-> x.pkt, pos |-> x.pos,
                res |-> decode_lenenc_integer(x.pkt, x.pos)]
  /\ ConnectionUnchanged

call_decode_lenenc_string ==
  /\ CodecIdle
  /\ \E x \in StringInputs :
       call' = [op |-> "decode_lenenc_string", pkt |-> x.pkt, pos |-> x.pos,
                str |-> x.str, kind |-> x.kind,
                res |-> decode_lenenc_string(x.pkt, x.pos)]
  /\ ConnectionUnchanged

call_HandshakeResponse41_encode ==
  /\ CodecIdle
  /\ \E x \in ResponseInputs :
       call' = [op |-> "HandshakeResponse41_encode", self |-> x,
                res |-> HandshakeResponse41_encode(x)]
  /\ ConnectionUnchanged

call_HandshakeResponse41_new ==
  /\ CodecIdle
  /\ \E x \in NewInputs :
       call' = [op |-> "HandshakeResponse41_new", username |-> x.username,
                password |-> x.password, database |-> x.database, salt |-> x.salt,
                res |-> HandshakeResponse41_new(x.username, x.password, x.database, x.salt)]
  /\ ConnectionUnchanged

call_ColumnDefinition41_decode ==
  /\ CodecIdle
  /\ \E c \in ColumnInputs :
       call' = [op |-> "ColumnDefinition41_decode", c |-> c,
                pkt |-> ColumnDefinition41_wire(c),
                res |-> ColumnDefinition41_decode(ColumnDefinition41_wire(c))]
  /\ ConnectionUnchanged

call_ResultsetRow_decode ==
  /\ CodecIdle
  /\ \E strs \in RowInputs :
       \E pkt \in {ResultsetRow_wire(strs)} :
         call' = [op |-> "ResultsetRow_decode", strs |-> strs, pkt |-> pkt,
                  res |-> ResultsetRow_decode(pkt)]
  /\ ConnectionUnchanged

\* write_packet with the counter at c into a stream, and read_packet with the
\* counter at c from the bytes written
call_write_read_packet ==
  /\ CodecIdle
  /\ \E payload \in FramePayloads :
       \E c \in FrameCounters(payload) :
         \E w \in {write_packet(c, payload, overflow_checks, TRUE)} :
           call' = [op |-> "write_read_packet", payload |-> payload, c |-> c, w |-> w,
                    r |-> read_packet(c, w.bytes, overflow_checks)]
  /\ ConnectionUnchanged

CodecNext ==
  \/ call_decode_lenenc_integer
  \/ call_decode_lenenc_string
  \/ call_HandshakeResponse41_encode
  \/ call_HandshakeResponse41_new
  \/ call_ColumnDefinition41_decode
  \/ call_ResultsetRow_decode
  \/ call_write_read_packet

CodecSpec == CodecInit /\ [][CodecNext]_vars

(***************************************************************************)
(* Properties of the packet transport and of the two exchanges.            *)
(***************************************************************************)
InHandshake == pc \in {"hs_greeting", "hs_response", "hs_reply"}
InQuery == pc \in {"q_first", "q_cols", "q_rows"}

\* C1: in every exchange the counter starts at 0 and grows by exactly 1 for
\* each packet read or written with success, so the k-th packet (k from 0,
\* both directions) carries sequence number k, reduced modulo 256 as a byte
\* is; the handshake is read 0, write 1, read 2 and a query is write 0
\* followed by reads 1, 2, 3, ...
C1_SequenceNumbering ==
  /\ \A i \in 1..Len(exchange) :
       /\ exchange[i].seq = (i - 1) % 256
       /\ exchange[i].dir = IF queries = 0
                            THEN (IF i = 2 THEN "write" ELSE "read")
                            ELSE (IF i = 1 THEN "write" ELSE "read")
  /\ queries = 0 => Len(exchange) <= 3
  /\ pc = "hs_greeting" => Len(exchange) = 0
  /\ pc = "hs_response" => Len(exchange) = 1
  /\ pc = "hs_reply" => Len(exchange) = 2
  /\ InQuery => Len(exchange) >= 1
  /\ (InHandshake \/ InQuery) => sequence = Len(exchange) % 256
  /\ (io.op # "none" /\ io.res.t = "Ok") => io.after = (io.expected + 1) % 256
  /\ \A i \in 1..Len(hslog) :
       /\ hslog[i].seq = i - 1
       /\ hslog[i].dir = IF i = 2 THEN "write" ELSE "read"

\* C1: a second query that has read its column count, a column definition
\* and a row, after a complete handshake
C1_Witness ==
  /\ pc = "q_rows"
  /\ queries = 2
  /\ Len(hslog) = 3
  /\ Len(exchange) >= 4
  /\ exchange[4].seq = 3

\* C2: read_packet on a packet whose sequence byte differs from the expected
\* counter fails with an error, yields no payload (the exchange holds the
\* packets before it and no more) and leaves the counter at the value it had
\* before the call
C2_WrongSequenceRejected ==
  (io.op = "read" /\ Len(io.wire) >= 4 /\ io.wire[4] # io.expected) =>
    /\ io.res = Err("invalid sequence")
    /\ io.after = io.expected
    /\ sequence = io.expected
    /\ Len(exchange) % 256 = io.expected

\* C2: the second packet of a query's response arrives with a wrong sequence
\* byte
C2_Witness ==
  /\ io.op = "read"
  /\ Len(io.wire) >= 4
  /\ io.wire[4] # io.expected
  /\ io.expected = 2
  /\ queries = 1
  /\ result.t = "Err"

\* the rows of a finished result set: the packets after the column count and
\* its n column definitions and before the last packet, each decoded as a row
C3_RowsOf(x, n) ==
  [i \in 1..(Len(x) - (3 + n)) |-> ResultsetRow_decode(x[2 + n + i].payload).v]

\* C3: a query whose first response packet does not start with 0xFF returns
\* exactly the rows decoded from the packets after the column definitions and
\* before the first packet that starts with 0xFE, in the order received; that
\* packet gives no row and is the last one read
C3_RowsUntilMarker ==
  (pc = "ready" /\ queries > 0 /\ Len(exchange) >= 2
     /\ FirstByte(exchange[2].payload) # 255) =>
    LET n == exchange[2].payload[1]
        last == Len(exchange)
        ended == last >= 3 + n /\ FirstByte(exchange[last].payload) = 254
    IN
    /\ result.t = "Ok" => ended
    /\ ended =>
         /\ \A i \in (3 + n)..(last - 1) : FirstByte(exchange[i].payload) # 254
         /\ result = Ok(DebugRows(C3_RowsOf(exchange, n)))
         /\ io.op = "read"
         /\ io.res = Ok(exchange[last].payload)
         /\ io.expected = (last - 1) % 256

\* C3: column count 2, two column definitions, the row ["1", "hello"], then
\* the 0xFE packet: the query returns that one row
C3_Witness ==
  /\ pc = "ready"
  /\ queries > 0
  /\ Len(exchange) = 6
  /\ exchange[2].payload = <<2>>
  /\ exchange[5].payload = <<1, 49, 5, 104, 101, 108, 108, 111>>
  /\ exchange[6].payload[1] = 254
  /\ result = Ok(DebugRows(<< <<(<<49>>), (<<104, 101, 108, 108, 111>>)>> >>))

\* "ERROR <code> (<sql_state>): <message>" read off an ERR payload p: the code
\* from bytes 1..2 (little-endian), the state from offsets 4..8, the message
\* from offset 9 on
C4_Text(p) ==
  <<69, 82, 82, 79, 82, 32>> \o Decimal(p[2] + (256 * p[3])) \o <<32, 40>>
    \o SubSeq(p, 5, 9) \o <<41, 58, 32>> \o SubSeq(p, 10, Len(p))

\* C4: when the first response packet of a query starts with 0xFF the query
\* reads no further packet and collects no row, and for a payload that holds
\* the code, the marker, the state and a message in UTF-8 it returns the text
\* "ERROR <code> (<sql_state>): <message>"
C4_ErrPacketText ==
  (queries > 0 /\ Len(exchange) >= 2 /\ FirstByte(exchange[2].payload) = 255) =>
    LET p == exchange[2].payload IN
    /\ Len(exchange) = 2
    /\ ~InQuery
    /\ rows = <<>>
    /\ cols = <<>>
    /\ io.op = "read"
    /\ io.res = Ok(p)
    /\ (Len(p) >= 9 /\ Utf8ValidFrom(SubSeq(p, 4, 4), 1) /\ Utf8ValidFrom(SubSeq(p, 5, 9), 1)
          /\ Utf8ValidFrom(SubSeq(p, 10, Len(p)), 1)) => result = Ok(C4_Text(p))
    /\ result.t = "Ok" => result.v = C4_Text(p)

\* C4: the server answers a query with ERR 1064 (42000): bad
C4_Witness ==
  /\ pc = "ready"
  /\ queries > 0
  /\ Len(exchange) = 2
  /\ exchange[2].payload = <<255, 40, 4, 35, 52, 50, 48, 48, 48, 98, 97, 100>>
  /\ result = Ok(<<69, 82, 82, 79, 82, 32, 49, 48, 54, 52, 32, 40, 52, 50, 48, 48, 48,
                   41, 58, 32, 98, 97, 100>>)

\* the handshake ran to its end: greeting of version 10 read, response
\* written, reply starting with 0x00 read
C5_HandshakeComplete ==
  /\ Len(hslog) = 3
  /\ hslog[1].dir = "read" /\ hslog[1].first = 10
  /\ hslog[2].dir = "write"
  /\ hslog[3].dir = "read" /\ hslog[3].first = 0

\* C5: a Connection exists, and a query packet is written, only after a
\* complete handshake; a greeting of another version, a reply that does not
\* start with 0x00, a sequence mismatch or a transport failure make
\* Connection::new return an error, after which no query packet is written
C5_QueryOnlyAfterHandshake ==
  /\ (pc = "ready" \/ InQuery \/ queries > 0) => C5_HandshakeComplete
  /\ (Len(hslog) >= 1 /\ hslog[1].first \notin {10, -1}) =>
       pc = "closed" /\ result.t = "Err" /\ queries = 0
  /\ (Len(hslog) = 3 /\ hslog[3].first \notin {0, -1}) =>
       pc = "closed" /\ result.t = "Err" /\ queries = 0
  /\ (queries = 0 /\ ~InHandshake /\ io.op # "none" /\ io.res.t = "Err") =>
       pc = "closed" /\ result = io.res
  /\ pc = "closed" => result.t = "Err" /\ queries = 0 /\ ~C5_HandshakeComplete

\* C5: a query packet written after a complete handshake
C5_Witness ==
  /\ pc = "q_first"
  /\ queries = 1
  /\ C5_HandshakeComplete
  /\ exchange[1].dir = "write"
  /\ exchange[1].payload[1] = 3

\* C6: after an operation of the connection has failed with an error no
\* further packet is written or read on it
C6_FailureEndsSession == [][failed => UNCHANGED <<io, queries, exchange>>]_vars

\* C7: a packet that was received and cannot be decoded makes Connection::new
\* or query return an error: the operation ends in no other way, and a
\* zero-length payload is never accepted
C7_DecodeFailuresReturned ==
  (io.op = "read" /\ io.res.t = "Ok") =>
    /\ pc # "panicked"
    /\ Len(io.res.v) = 0 => result.t = "Err"

\* C8: the counter wraps modulo 256: a packet numbered 255 is read or written
\* like any other and leaves the counter at 0, and the exchange goes on
C8_CounterWraps ==
  (io.op # "none" /\ io.expected = 255
     /\ (io.op = "read" => Len(io.wire) >= 4 /\ io.wire[4] = 255)) =>
    /\ io.res.t # "Panic"
    /\ io.after = 0
    /\ pc # "panicked"

\* C9: with an empty password the handshake response carries an empty proof:
\* the byte after the user name's NUL is 0 and the database name follows it
C9_EmptyPasswordEmptyProof ==
  (queries = 0 /\ Len(exchange) >= 2 /\ options.password = <<>>) =>
    LET p == exchange[2].payload
        at == 32 + Len(options.username) + 2
    IN /\ p[at] = 0
       /\ SubSeq(p, at + 1, at + Len(options.database)) = options.database

\* the greetings that hold, for their declared salt length L, a second
\* fragment of max(L - 8, 13) bytes, the last a NUL
C10_Greetings ==
  {MkGreeting(10, <<56, 46, 51, 46, 48>>, L, max(L - 8, 13) - 1) : L \in 0..255}

\* C10: for every declared salt length L the decoded challenge is the 8 bytes
\* of the first fragment followed by the first max(L - 8, 13) - 1 bytes of the
\* second, the decoder advances max(L - 8, 13) bytes over the second fragment,
\* and the challenge given to the proof is fragment 1 followed by fragment 2
C10_SaltLength ==
  (queries = 0 /\ Len(exchange) = 1 /\ io.op = "read"
     /\ exchange[1].payload \in C10_Greetings) =>
    LET p == exchange[1].payload
        L == p[28]
        n == max(L - 8, 13)
    IN /\ pc = "hs_response"
       /\ handshake.auth_plugin_data_part_1 = SubSeq(p, 12, 19)
       /\ handshake.auth_plugin_data_part_2 = SubSeq(p, 39, 39 + (n - 2))
       /\ handshake.consumed_part_2 = n
       /\ auth_plugin_data(handshake) = SubSeq(p, 12, 19) \o SubSeq(p, 39, 39 + (n - 2))

(***************************************************************************)
(* Properties of the codec functions, of the query command and of the      *)
(* stream between two requests.                                            *)
(***************************************************************************)
\* the bytes of a call's buffer from its offset on
FromOffset == SubSeq(call.pkt, call.pos + 1, Len(call.pkt))

\* C11: decode_lenenc_integer follows the width table on every valid input: a
\* first byte n <= 0xFA gives (n, 1), 0xFC and two bytes their 16-bit
\* little-endian value and 3, 0xFD and three bytes their 24-bit value and 4,
\* 0xFE and eight bytes their 64-bit value and 9; the bytes are taken from the
\* offset on and nothing before it matters
C11_LenencIntegerTable ==
  (call.op = "decode_lenenc_integer" /\ Len(FromOffset) >= 1) =>
    LET b == FromOffset IN
    /\ b[1] <= 250 => call.res = Ok(<<<<0, 0, 0, b[1]>>, 1>>)
    /\ (b[1] = 252 /\ Len(b) >= 3) =>
         call.res = Ok(<<<<0, 0, 0, b[2] + (256 * b[3])>>, 3>>)
    /\ (b[1] = 253 /\ Len(b) >= 4) =>
         call.res = Ok(<<<<0, 0, b[4], b[2] + (256 * b[3])>>, 4>>)
    /\ (b[1] = 254 /\ Len(b) >= 9) =>
         call.res = Ok(<<<<b[8] + (256 * b[9]), b[6] + (256 * b[7]),
                          b[4] + (256 * b[5]), b[2] + (256 * b[3])>>, 9>>)

\* C11: a 64-bit value decoded at an offset greater than 0
C11_Witness ==
  /\ call.op = "decode_lenenc_integer"
  /\ call.pos = 3
  /\ FromOffset = <<254, 0, 1, 0, 0, 128, 0, 0, 255>>
  /\ call.res = Ok(<<<<65280, 128, 0, 256>>, 9>>)

\* C12: decode_lenenc_integer returns an error and no value for the first
\* bytes 0xFB and 0xFF, whatever follows
C12_UnknownDiscriminant ==
  (call.op = "decode_lenenc_integer" /\ Len(FromOffset) >= 1
     /\ FromOffset[1] \in {251, 255}) =>
    call.res = Err("unknown byte")

\* C12: the first byte 0xFB followed by eight bytes
C12_Witness ==
  /\ call.op = "decode_lenenc_integer"
  /\ Len(FromOffset) = 9
  /\ FromOffset[1] = 251
  /\ call.res.t = "Err"

\* C13: for a valid UTF-8 string s of at most 250 bytes, at any offset,
\* decode_lenenc_string on [len(s)] ++ s returns (s, len(s) + 1)
C13_LenencStringRoundTrip ==
  (call.op = "decode_lenenc_string" /\ call.kind = "valid") =>
    /\ Len(call.str) <= 250
    /\ SubSeq(FromOffset, 1, 1 + Len(call.str)) = <<Len(call.str)>> \o call.str
    /\ call.res = Ok(<<call.str, Len(call.str) + 1>>)

\* C13: a string of 250 bytes of two-byte characters decoded at offset 3, with
\* bytes after it
C13_Witness ==
  /\ call.op = "decode_lenenc_string"
  /\ call.kind = "valid"
  /\ call.pos = 3
  /\ Len(call.str) = 250
  /\ call.str[1] = 195
  /\ Len(call.pkt) > 254
  /\ call.res.t = "Ok"
  /\ call.res.v[2] = 251

\* C14: decode_lenenc_string returns an error when the length byte announces
\* more bytes than the buffer holds after it, and when the offset is at the
\* end of the buffer
C14_TruncatedStringIsError ==
  (call.op = "decode_lenenc_string" /\ call.kind \in {"truncated", "at_end"}) =>
    call.res.t = "Err"

\* the bytes of p from position i on are attribute pairs, each a length byte,
\* a key, a length byte and a value, and end with p
RECURSIVE C15_Pairs(_, _)
C15_Pairs(p, i) ==
  IF i = Len(p) + 1 THEN TRUE
  ELSE /\ i <= Len(p)
       /\ i + p[i] + 1 <= Len(p)
       /\ i + p[i] + 1 + p[i + p[i] + 1] <= Len(p)
       /\ C15_Pairs(p, i + p[i] + 2 + p[i + p[i] + 1])

\* the 4 little-endian bytes of a u32 kept as <<high half, low half>>
C15_Le32(w) == <<w[2] % 256, w[2] \div 256, w[1] % 256, w[1] \div 256>>

\* C15: the encoded handshake response is the capability flags and the max
\* packet size (4 little-endian bytes each), the character set byte and 23
\* zero bytes, then username and NUL, the proof length and the proof, database
\* and NUL, plugin name and NUL, and a byte counting the attribute bytes
\* after it, which are pairs of length-prefixed keys and values
C15_ResponseLayout ==
  call.op = "HandshakeResponse41_encode" =>
    LET r == call.self
        p == call.res
        u == 32 + Len(r.username) + 1
        a == u + 1 + Len(r.auth_response)
        d == a + Len(r.database) + 1
        n == d + Len(r.client_plugin_name) + 1
    IN
    /\ SubSeq(p, 1, 4) = C15_Le32(r.client_flag)
    /\ SubSeq(p, 5, 8) = C15_Le32(r.max_packet_size)
    /\ p[9] = r.character_set
    /\ \A i \in 10..32 : p[i] = 0
    /\ SubSeq(p, 33, u) = r.username \o <<0>>
    /\ p[u + 1] = Len(r.auth_response)
    /\ SubSeq(p, u + 2, a) = r.auth_response
    /\ SubSeq(p, a + 1, d) = r.database \o <<0>>
    /\ SubSeq(p, d + 1, n) = r.client_plugin_name \o <<0>>
    /\ Len(p) > n
    /\ p[n + 1] = Len(p) - (n + 1)
    /\ C15_Pairs(p, n + 2)

\* C15: the response of test_handshake_response_41: user root, the 20-byte
\* proof, database test, 113 attribute bytes
C15_Witness ==
  /\ call.op = "HandshakeResponse41_encode"
  /\ SubSeq(call.res, 1, 9) = <<141, 162, 191, 25, 0, 0, 0, 1, 8>>
  /\ SubSeq(call.res, 33, 38) = <<114, 111, 111, 116, 0, 20>>
  /\ SubSeq(call.res, 59, 63) = <<116, 101, 115, 116, 0>>
  /\ call.res[86] = 113
  /\ Len(call.res) = 199

\* C16: the payload of the one packet query() writes is 0x03, 0x00, 0x01 and
\* the bytes of the SQL text unchanged, 3 + len(sql) bytes in all
C16_QueryPayload ==
  (queries > 0 /\ Len(exchange) >= 1) =>
    /\ exchange[1].dir = "write"
    /\ exchange[1].payload = <<3, 0, 1>> \o sql
    /\ Len(exchange[1].payload) = 3 + Len(sql)
    /\ \A i \in 2..Len(exchange) : exchange[i].dir = "read"
    /\ pc = "q_first" =>
         /\ io.op = "write"
         /\ io.wire = <<(3 + Len(sql)) % 256, (3 + Len(sql)) \div 256, 0, 0, 3, 0, 1>> \o sql

\* C16: a query text with a quote, a backslash, a NUL and a two-byte character
C16_Witness ==
  /\ pc = "q_first"
  /\ sql = <<39, 92, 34, 0, 195, 169>>
  /\ exchange[1].payload = <<3, 0, 1, 39, 92, 34, 0, 195, 169>>

\* C17: decoding the packet laid out as six length-prefixed strings, the
\* length-encoded fixed-fields length, character set (2 bytes), column length
\* (4), type (1), flags (2) and decimals (1), all little-endian, gives back
\* the column definition in every field
C17_ColumnRoundTrip ==
  call.op = "ColumnDefinition41_decode" =>
    /\ call.res.t = "Ok"
    /\ call.res.v = call.c
    /\ \A f \in {"catalog", "schema", "table", "org_table", "name", "org_name",
                 "length_of_fixed_length_fields", "character_set", "column_length",
                 "type_", "flags", "decimals"} : call.res.v[f] = call.c[f]

\* C17: a column with a name of 250 bytes, a 64-bit fixed-fields length and
\* fixed fields at their largest
C17_Witness ==
  /\ call.op = "ColumnDefinition41_decode"
  /\ Len(call.c.name) = 250
  /\ call.c.length_of_fixed_length_fields = <<65535, 65535, 65535, 65535>>
  /\ call.c.column_length = <<65535, 65535>>
  /\ call.res.t = "Ok"
  /\ call.res.v.org_name = <<240, 159, 152, 128>>

\* C18: for a non-empty password the proof is 20 bytes, the bytewise XOR of
\* SHA1(password) with SHA1(challenge ++ SHA1(SHA1(password))), whatever the
\* username and the database are; for password "root" and the challenge of
\* the test greeting it is d5 d2 ff 2c ... 4b 40
C18_ProofIsXorOfHashes ==
  (call.op = "HandshakeResponse41_new" /\ call.password # <<>>) =>
    /\ Len(call.res.auth_response) = 20
    /\ \E h1 \in {Sha1(call.password)} :
         \E h3 \in {Sha1(call.salt \o Sha1(h1))} :
           call.res.auth_response = [i \in 1..20 |-> Xor16(h1[i], h3[i])]
    /\ (call.password = <<114, 111, 111, 116>>
          /\ call.salt = <<9, 18, 1, 63, 65, 34, 51, 54, 21, 2, 37, 13, 68, 12, 12, 44,
                           79, 91, 106, 85>>) =>
         call.res.auth_response =
           <<213, 210, 255, 44, 148, 146, 149, 111, 127, 250, 108, 89, 33, 132, 241,
             126, 223, 190, 75, 64>>

\* C18: the proof for a password longer than one SHA-1 block, user "a" and no
\* database
C18_Witness ==
  /\ call.op = "HandshakeResponse41_new"
  /\ Len(call.password) = 70
  /\ call.username = <<97>>
  /\ call.database = <<>>
  /\ Len(call.res.auth_response) = 20

\* C19: while a query of a session without failure waits for a packet, and
\* the orderly server has sent its complete response (an ERR packet, an OK
\* packet, or a result set up to its 0xFE packet), the packet is in the
\* stream: the query never waits for a packet that will not come
C19_NeverWaitsInVain ==
  (server = "orderly" /\ InQuery /\ ~failed) => Readable(stream)

\* C20: when a query's command packet is written, no byte of an earlier
\* response is left unread in the stream
C20_ResponseDrained == [][queries' # queries => stream = <<>>]_vars

(***************************************************************************)
(* Properties of the result set a query reads, of the packet framing and   *)
(* of the row decoder.                                                     *)
(***************************************************************************)
\* C21: when the first packet of a response does not start with 0xFF its
\* first byte N is the column count: the next N packets, and no others, are
\* decoded as column definitions, and every packet after them is taken as a
\* row or as the 0xFE packet that ends the result; with N = 0 that holds from
\* the packet after the first on
C21_ColumnsBeforeRows ==
  /\ pc = "q_cols" =>
       /\ exchange[2].payload[1] # 255
       /\ col_count = exchange[2].payload[1]
       /\ Len(cols) < col_count
       /\ Len(exchange) = 2 + Len(cols)
       /\ rows = <<>>
  /\ (pc = "q_rows" \/ (pc = "ready" /\ queries > 0 /\ Len(exchange) >= 2 /\ result.t = "Ok"
                          /\ exchange[2].payload[1] # 255)) =>
       /\ exchange[2].payload[1] # 255
       /\ col_count = exchange[2].payload[1]
       /\ Len(cols) = col_count
       /\ \A i \in 1..col_count :
            ColumnDefinition41_decode(exchange[2 + i].payload) = Ok(cols[i])
       /\ \A j \in 1..Len(rows) :
            /\ exchange[2 + col_count + j].payload[1] # 254
            /\ ResultsetRow_decode(exchange[2 + col_count + j].payload) = Ok(rows[j])
       /\ IF pc = "q_rows" THEN Len(exchange) = 2 + col_count + Len(rows)
          ELSE /\ Len(exchange) = 3 + col_count + Len(rows)
               /\ exchange[Len(exchange)].payload[1] = 254

\* C21: a query that has read two column definitions after the count 2 and
\* then a row
C21_Witness ==
  /\ pc = "q_rows"
  /\ exchange[2].payload = <<2>>
  /\ Len(cols) = 2
  /\ Len(rows) = 1
  /\ Len(exchange) = 5

\* C22: a call of read_packet that fails, because the header cannot be read,
\* the sequence byte is not the expected one or the stream ends before the
\* declared payload, leaves the counter as it found it
C22_CounterOnlyOnSuccess ==
  (io.op = "read" /\ io.res.t = "Err") => io.after = io.expected

\* the length the header of a read's bytes declares (3 bytes, little-endian)
C23_Declared(wire) == wire[1] + (256 * wire[2]) + (65536 * wire[3])

\* the states in which the next step of the connection is a call of read_packet
C23_Reading == pc \in {"hs_greeting", "hs_reply", "q_first", "q_cols", "q_rows"}

\* C23: a call of read_packet that succeeds returns a payload of exactly the
\* length its header declares, the bytes that follow the header, and takes
\* exactly the 4 + length bytes of the packet from the stream; a call that
\* finds fewer payload bytes than declared before the stream ends does not
\* succeed
C23_ExactLength ==
  [][(C23_Reading /\ io'.op = "read") =>
       /\ io'.res.t = "Ok" =>
            /\ Len(io'.wire) >= 4
            /\ Len(io'.res.v) = C23_Declared(io'.wire)
            /\ io'.wire = SubSeq(io'.wire, 1, 4) \o io'.res.v
            /\ server = "orderly" => stream = io'.wire \o stream'
       /\ (Len(io'.wire) < 4 \/ Len(io'.wire) < 4 + C23_Declared(io'.wire)) =>
            io'.res.t = "Err"]_vars

\* C23: a packet of 23 bytes read from a stream that holds more packets
C23_Witness ==
  /\ io.op = "read"
  /\ io.res.t = "Ok"
  /\ Len(io.res.v) = 23
  /\ io.wire[1] = 23
  /\ server = "orderly"
  /\ Len(stream) > 0

\* C24: for every payload and every value c of the counter, write_packet
\* succeeds, hands the stream the three little-endian bytes of the payload's
\* length, c and the payload, and leaves the counter at c + 1 (modulo 256, as
\* a byte is); read_packet with the counter at c returns the payload from
\* those bytes
C24_FramingInverse ==
  call.op = "write_read_packet" =>
    /\ call.w.res = Ok(<<>>)
    /\ call.w.bytes = <<Len(call.payload) % 256, (Len(call.payload) \div 256) % 256,
                        (Len(call.payload) \div 65536) % 256, call.c>> \o call.payload
    /\ call.w.sequence = (call.c + 1) % 256
    /\ call.r.res = Ok(call.payload)

\* the loop of the row decoder over a packet of the values strs, at the i-th
\* value and position pos: each step decodes the value and consumes it and
\* its length byte, at least one byte, and the last step ends with the packet
RECURSIVE C25_Steps(_, _, _, _)
C25_Steps(pkt, strs, i, pos) ==
  IF i > Len(strs) THEN pos = Len(pkt)
  ELSE /\ pos < Len(pkt)
       /\ \E r \in {decode_lenenc_string(pkt, pos)} :
            /\ r = Ok(<<strs[i], Len(strs[i]) + 1>>)
            /\ r.v[2] >= 1
            /\ C25_Steps(pkt, strs, i + 1, pos + r.v[2])

\* C25: decoding a row packet made of k values of at most 250 bytes of UTF-8,
\* each after its length byte, returns those k values in order; every step of
\* the loop consumes at least one byte and the loop ends exactly at the end of
\* the packet; the empty packet gives the empty row
C25_RowRoundTrip ==
  call.op = "ResultsetRow_decode" =>
    /\ call.res = Ok(call.strs)
    /\ C25_Steps(call.pkt, call.strs, 1, 0)
    /\ call.pkt = <<>> => call.res = Ok(<<>>)

\* C25: a row of three values: one of 250 bytes, an empty one, "hello"
C25_Witness ==
  /\ call.op = "ResultsetRow_decode"
  /\ Len(call.strs) = 3
  /\ Len(call.strs[1]) = 250
  /\ call.strs[2] = <<>>
  /\ call.strs[3] = <<104, 101, 108, 108, 111>>
  /\ Len(call.pkt) = 258
  /\ call.res.t = "Ok"

\* C26: every row of a query answered by the orderly server with a complete
\* well-formed response holds exactly as many values as the column count the
\* first packet of the response announced
C26_RowsHaveColumnCountValues ==
  (server = "orderly" /\ queries > 0 /\ Len(exchange) >= 2
     /\ Len(exchange[2].payload) >= 1) =>
    \A j \in 1..Len(rows) : Len(rows[j]) = exchange[2].payload[1]

=============================================================================
